---- MODULE Spec2Model ----
(***************************************************************************)
(* Model of the three entry points under src/scripts:                      *)
(*   test_connection.py    - the connectivity harness and its three probes *)
(*   explore_givebutter.py - campaign / contacts exploration               *)
(*   explore_jotform.py    - form exploration and answer extraction        *)
(* together with db.get_supabase.  One run of one script is one behaviour: *)
(* Init chooses the script and the process environment; every remote       *)
(* answer (import result, response status, response body, raised error)    *)
(* is chosen by the environment at the step that consumes it.              *)
(***************************************************************************)
EXTENDS Integers, Sequences, FiniteSets, TLC

VARIABLES
    script,      \* which entry point runs
    env,         \* os.environ restricted to the keys the script reads: a partial map key -> string
    pc,          \* position in main()
    idx,         \* test_connection.main: index of the for loop over tests
    stage,       \* position inside the function main() is currently calling
    ret,         \* value returned by the probe called last: <<success, message>>
    table,       \* test_connection.main: rows added to the rich Table
    all_passed,  \* test_connection.main: all_passed
    exit_code,   \* exit status of the process
    log,         \* history: what each function did, in order
    out,         \* console output of the exploration scripts, one entry per report
    raised,      \* history: the exceptions raised inside the functions, in order
    left,        \* explore_form: submissions of the fetched page not yet displayed
    submission,  \* explore_form: answers of the submission displayed last
    extracted    \* explore_form: the dict built from them

vars == <<script, env, pc, idx, stage, ret, table, all_passed, exit_code, log, out,
          raised, left, submission, extracted>>

\* the variables of explore_form's submission loop
sample == <<left, submission, extracted>>

Range(s) == {s[i] : i \in 1..Len(s)}

----------------------------------------------------------------------------
(* Environment *)

Scripts == {"test_connection", "explore_givebutter", "explore_jotform"}

\* keys each script reads with os.getenv
EnvKeys(s) ==
    CASE s = "test_connection" ->
            {"SUPABASE_URL", "SUPABASE_KEY", "JOTFORM_API_KEY", "GIVEBUTTER_API_KEY"}
      [] s = "explore_givebutter" -> {"GIVEBUTTER_API_KEY"}
      [] s = "explore_jotform" -> {"JOTFORM_API_KEY"}

\* values a variable that is set can hold: the empty string or a non-empty one
EnvValues == {"", "secret"}

None == "<None>"

\* os.getenv(key): None when the variable is not set
getenv(key) == IF key \in DOMAIN env THEN env[key] ELSE None

\* variant: a test for None alone, which lets the empty string through
MissingNoneOnly(value) == value = None

\* `not value` on the result of os.getenv: None and "" are falsy
Missing(value) == value = None \/ value = ""

\* exception classes the remote libraries and the parsing code raise; all derive from Exception
ExceptionTypes ==
    {"ImportError", "ValueError", "ConnectionError", "JSONDecodeError",
     "AttributeError", "KeyError", "TypeError", "IndexError", "APIError"}

Exc(type, msg) == [type |-> type, msg |-> msg]

\* str(e)
str(e) == e.msg

\* variant: a handler that takes ValueError alone
HandlesValueErrorOnly(e) == e.type = "ValueError"

\* `except Exception as e`: the probe's handler takes every Exception subclass
Handles(e) == e.type \in ExceptionTypes

----------------------------------------------------------------------------
(* test_connection.py *)

\* the registered probes, in order
tests ==
    << <<"Supabase", "test_supabase">>,
       <<"Jotform", "test_jotform">>,
       <<"Givebutter", "test_givebutter">> >>

current == tests[idx][2]

Ev(f, what, data) == [f |-> f, what |-> what, data |-> data]

\* the probe hands (success, message) back to main
Returns(success, message) ==
    /\ ret' = <<success, message>>
    /\ stage' = "returned"
    /\ UNCHANGED <<pc, exit_code>>

\* return success, message in the try block
Return(success, message) ==
    /\ Returns(success, message)
    /\ UNCHANGED raised

\* an exception raised inside the try block of a probe: handled by its except clause,
\* which returns (False, str(e)); an exception the clause does not take propagates
\* through main() and ends the process with a traceback (status 1)
Raise(e) ==
    /\ raised' = Append(raised, [f |-> current, e |-> e])
    /\ IF Handles(e)
       THEN Returns(FALSE, str(e))
       ELSE /\ pc' = "crashed"
            /\ stage' = "none"
            /\ exit_code' = 1
            /\ UNCHANGED ret

InProbe(f, st) ==
    /\ script = "test_connection"
    /\ pc = "probe"
    /\ current = f
    /\ stage = st

\* main, lines 84-99
MainStart ==
    /\ script = "test_connection"
    /\ pc = "start"
    /\ pc' = "loop"
    /\ idx' = 1
    /\ table' = <<>>
    /\ all_passed' = TRUE
    /\ UNCHANGED <<script, env, stage, ret, exit_code, log, out, sample, raised>>

\* main, line 102: test_func() is entered
MainCall ==
    /\ script = "test_connection"
    /\ pc = "loop"
    /\ idx <= Len(tests)
    /\ pc' = "probe"
    /\ stage' = "import"
    /\ log' = Append(log, Ev(current, "invoked", <<>>))
    /\ UNCHANGED <<script, env, idx, ret, table, all_passed, exit_code, out, sample, raised>>

\* what each probe imports first (lines 25, 37, 54)
Imported(f) ==
    CASE f = "test_supabase" -> "scripts.db"
      [] f = "test_jotform" -> "jotform"
      [] f = "test_givebutter" -> "requests"

\* the import statement that opens each probe's try block (lines 25, 37, 54)
ProbeImport ==
    /\ script = "test_connection"
    /\ pc = "probe"
    /\ stage = "import"
    /\ \E ok \in BOOLEAN :
        IF ok
        THEN /\ stage' = "credential"
             /\ log' = Append(log, Ev(current, "import", <<"ok">>))
             /\ UNCHANGED <<pc, ret, exit_code, raised>>
        ELSE /\ log' = Append(log, Ev(current, "import", <<"raise">>))
             /\ Raise(Exc("ImportError", <<"No module named", Imported(current)>>))
    /\ UNCHANGED <<script, env, idx, table, all_passed, out, sample>>

\* db.get_supabase, lines 26-29: the message of the ValueError
SupabaseMessage ==
    <<"Missing Supabase credentials. Ensure", "SUPABASE_URL", "and", "SUPABASE_KEY",
      "are set in .env file">>

\* test_supabase line 26 -> db.get_supabase, lines 22-31
SupabaseGetClient ==
    /\ InProbe("test_supabase", "credential")
    /\ LET url == getenv("SUPABASE_URL")
           key == getenv("SUPABASE_KEY")
       IN IF Missing(url) \/ Missing(key)
          THEN /\ log' = Append(log, Ev(current, "credential", <<"missing">>))
               /\ Raise(Exc("ValueError", SupabaseMessage))
          ELSE \E ok \in BOOLEAN :
                 \* create_client(url, key) returns a client or raises
                 IF ok
                 THEN /\ stage' = "call"
                      /\ log' = Append(log, Ev(current, "credential", <<"ok">>))
                      /\ UNCHANGED <<pc, ret, exit_code, raised>>
                 ELSE /\ log' = Append(log, Ev(current, "credential", <<"ok", "construct-raise">>))
                      /\ Raise(Exc("APIError", <<"Invalid URL">>))
    /\ UNCHANGED <<script, env, idx, table, all_passed, out, sample>>

\* test_supabase, lines 28-29: the one query
SupabaseQuery ==
    /\ InProbe("test_supabase", "call")
    /\ \E answer \in {"ok", "refused", "rejected"} :
        /\ log' = Append(log, Ev(current, "call", <<answer>>))
        /\ CASE answer = "ok" -> Return(TRUE, <<"Connected successfully">>)
             [] answer = "refused" -> Raise(Exc("ConnectionError", <<"connection refused">>))
             [] answer = "rejected" -> Raise(Exc("APIError", <<"relation does not exist">>))
    /\ UNCHANGED <<script, env, idx, table, all_passed, out, sample>>

\* variant: a message that does not name the key
JotformKeyMessageGeneric == <<"API key not set in .env">>

\* test_jotform, line 41: the message returned when the key is missing
JotformKeyMessage == <<"JOTFORM_API_KEY", "not set in .env">>

\* test_jotform, lines 39-41
JotformKey ==
    /\ InProbe("test_jotform", "credential")
    /\ LET api_key == getenv("JOTFORM_API_KEY")
       IN IF Missing(api_key)
          THEN /\ log' = Append(log, Ev(current, "credential", <<"missing">>))
               /\ Return(FALSE, JotformKeyMessage)
          ELSE /\ log' = Append(log, Ev(current, "credential", <<"ok">>))
               /\ stage' = "construct"
               /\ UNCHANGED <<pc, ret, exit_code, raised>>
    /\ UNCHANGED <<script, env, idx, table, all_passed, out, sample>>

\* test_jotform, line 43: JotformAPIClient(api_key)
JotformClient ==
    /\ InProbe("test_jotform", "construct")
    /\ \E ok \in BOOLEAN :
        IF ok
        THEN /\ stage' = "call"
             /\ log' = Append(log, Ev(current, "construct", <<"ok">>))
             /\ UNCHANGED <<pc, ret, exit_code, raised>>
        ELSE /\ log' = Append(log, Ev(current, "construct", <<"raise">>))
             /\ Raise(Exc("TypeError", <<"client construction failed">>))
    /\ UNCHANGED <<script, env, idx, table, all_passed, out, sample>>

\* what client.get_user() can give back
UserAnswers == {"user", "nousername", "notadict", "refused", "unauthorized"}

\* test_jotform, lines 44-46: the one request, and the message built from its answer
JotformGetUser ==
    /\ InProbe("test_jotform", "call")
    /\ \E answer \in UserAnswers :
        /\ log' = Append(log, Ev(current, "call", <<answer>>))
        /\ CASE answer = "user" -> Return(TRUE, <<"Connected as:", "swab">>)
             [] answer = "nousername" -> Return(TRUE, <<"Connected as:", "Unknown">>)
             [] answer = "notadict" ->
                    Raise(Exc("AttributeError", <<"'NoneType' object has no attribute 'get'">>))
             [] answer = "refused" -> Raise(Exc("ConnectionError", <<"connection refused">>))
             [] answer = "unauthorized" -> Raise(Exc("APIError", <<"HTTP Error", "401">>))
    /\ UNCHANGED <<script, env, idx, table, all_passed, out, sample>>

\* test_givebutter, line 58: the message returned when the key is missing
GivebutterKeyMessage == <<"GIVEBUTTER_API_KEY", "not set in .env">>

\* test_givebutter, lines 56-58
GivebutterKey ==
    /\ InProbe("test_givebutter", "credential")
    /\ LET api_key == getenv("GIVEBUTTER_API_KEY")
       IN IF Missing(api_key)
          THEN /\ log' = Append(log, Ev(current, "credential", <<"missing">>))
               /\ Return(FALSE, GivebutterKeyMessage)
          ELSE /\ log' = Append(log, Ev(current, "credential", <<"ok">>))
               /\ stage' = "call"
               /\ UNCHANGED <<pc, ret, exit_code, raised>>
    /\ UNCHANGED <<script, env, idx, table, all_passed, out, sample>>

\* HTTP status codes the campaign service answers with
Statuses == {200, 201, 204, 401, 404, 500}

Is2xx(status_code) == status_code >= 200 /\ status_code < 300

\* response bodies (response.text)
GoodBody == "{\"data\":[{}],\"meta\":{\"total\":2}}"
NoMetaBody == "{\"data\":[]}"
ListBody == "[]"
NotJsonBody == "<html>Bad Gateway</html>"
Bodies == {GoodBody, NoMetaBody, ListBody, NotJsonBody}

\* test_givebutter, lines 72-73: response.json() then data.get('meta', {}).get('total', 0);
\* <<"ok", count>> or <<"raise", exception>>
CampaignCount(text) ==
    CASE text = GoodBody -> <<"ok", "2">>
      [] text = NoMetaBody -> <<"ok", "0">>
      [] text = ListBody ->
            <<"raise", Exc("AttributeError", <<"'list' object has no attribute 'get'">>)>>
      [] OTHER ->
            <<"raise", Exc("JSONDecodeError", <<"Expecting value: line 1 column 1 (char 0)">>)>>

\* variant: a test that accepts every 2xx status
StatusOkAny2xx(status_code) == Is2xx(status_code)

\* test_givebutter, line 71: the test on response.status_code
StatusOk(status_code) == status_code = 200

\* test_givebutter, lines 65-76: the one request and the handling of its response
GivebutterGet ==
    /\ InProbe("test_givebutter", "call")
    /\ \/ /\ log' = Append(log, Ev(current, "call", <<"refused">>))
          /\ Raise(Exc("ConnectionError", <<"connection refused">>))
       \/ \E status_code \in Statuses, text \in Bodies :
            /\ log' = Append(log, Ev(current, "call", <<"response", ToString(status_code), text>>))
            /\ IF StatusOk(status_code)
               THEN LET got == CampaignCount(text)
                    IN IF got[1] = "ok"
                       THEN Return(TRUE, <<"Connected -", got[2], "campaigns accessible">>)
                       ELSE Raise(got[2])
               ELSE Return(FALSE, <<"HTTP", ToString(status_code), ":", text>>)
    /\ UNCHANGED <<script, env, idx, table, all_passed, out, sample>>

\* main, line 103
StatusText(success) == IF success THEN "Pass" ELSE "Fail"

\* variant: all_passed overwritten by the last result
AllPassedLastOnly(passed, success) == success

\* main, lines 106-107
AllPassedAfter(passed, success) == IF ~success THEN FALSE ELSE passed

\* variant: a failed probe is run again
LoopAdvanceRetry(i, success) == IF success THEN i + 1 ELSE i

\* main, line 101: the for loop moves to the next registered probe whatever the result
LoopAdvance(i, success) == i + 1

\* main, lines 102-107: the probe has returned; its row is added
MainRow ==
    /\ script = "test_connection"
    /\ pc = "probe"
    /\ stage = "returned"
    /\ LET service_name == tests[idx][1]
           success == ret[1]
           message == ret[2]
       IN /\ table' = Append(table, <<service_name, StatusText(success), message>>)
          /\ all_passed' = AllPassedAfter(all_passed, success)
          /\ idx' = LoopAdvance(idx, success)
    /\ pc' = "loop"
    /\ stage' = "none"
    /\ UNCHANGED <<script, env, ret, exit_code, log, out, sample, raised>>

\* main, lines 112-118: sys.exit(1) when a probe failed, normal end otherwise
ExitStatus(passed) == IF passed THEN 0 ELSE 1

\* main, lines 109-118
MainReport ==
    /\ script = "test_connection"
    /\ pc = "loop"
    /\ idx > Len(tests)
    /\ out' = Append(out, IF all_passed THEN <<"All connections successful!">>
                                        ELSE <<"Some connections failed">>)
    /\ exit_code' = ExitStatus(all_passed)
    /\ pc' = "exit"
    /\ UNCHANGED <<script, env, idx, stage, ret, table, all_passed, log, raised, sample>>

TestConnection ==
    \/ MainStart \/ MainCall \/ ProbeImport
    \/ SupabaseGetClient \/ SupabaseQuery
    \/ JotformKey \/ JotformClient \/ JotformGetUser
    \/ GivebutterKey \/ GivebutterGet
    \/ MainRow \/ MainReport

----------------------------------------------------------------------------
(* explore_givebutter.py *)

\* variant: a handler that takes connection errors alone
ExploreHandlesConnectionOnly(e) == e.type = "ConnectionError"

\* `except Exception as e` of the exploration functions
\* (explore_givebutter.py 148 and 211, explore_jotform.py 113)
ExploreHandles(e) == e.type \in ExceptionTypes

\* an exception raised inside the try block of an exploration function: the except
\* clause prints it and the function returns; one the clause does not take ends the process
ExploreRaise(e) ==
    /\ raised' = Append(raised, [f |-> pc, e |-> e])
    /\ IF ExploreHandles(e)
       THEN /\ out' = Append(out, <<"Error:">> \o str(e))
            /\ stage' = "returned"
            /\ UNCHANGED <<pc, exit_code>>
       ELSE /\ pc' = "crashed"
            /\ stage' = "none"
            /\ exit_code' = 1
            /\ UNCHANGED out

Refused == Exc("ConnectionError", <<"connection refused">>)

\* bodies of the single-resource endpoint GET /campaigns/{id}
DetailBodies == {"campaign", "nullgoal", "nodata", "notjson"}

\* explore_campaign, lines 47-53: response.json()['data'] and the printed fields;
\* <<"ok", lines>> or <<"raise", exception>>
CampaignReport(body) ==
    CASE body = "campaign" -> <<"ok", <<"Title:", "Type:", "Goal:", "Raised:", "Donors:">> >>
      [] body = "nullgoal" ->
            <<"raise", Exc("TypeError", <<"unsupported format string passed to NoneType.__format__">>)>>
      [] body = "nodata" -> <<"raise", Exc("KeyError", <<"'data'">>)>>
      [] OTHER -> <<"raise", Exc("JSONDecodeError", <<"Expecting value">>)>>

\* largest number of records a list endpoint returns in the model
MaxRecords == 2

\* bodies of the list endpoints: {data: [n records], meta: {total: n, ...}}, the same
\* without meta, without data, or no JSON at all
ListBodies ==
    {<<"page", n>> : n \in 0..MaxRecords} \cup {<<"nometa", 0>>, <<"nodata", 0>>, <<"notjson", 0>>}

\* response.json() followed by data['data'] (and data['meta'] where the code reads it);
\* <<"ok", n>> or <<"raise", exception>>
ListParse(body, needs_meta) ==
    CASE body[1] = "page" -> <<"ok", body[2]>>
      [] body[1] = "nometa" ->
            IF needs_meta THEN <<"raise", Exc("KeyError", <<"'meta'">>)>> ELSE <<"ok", body[2]>>
      [] body[1] = "nodata" -> <<"raise", Exc("KeyError", <<"'data'">>)>>
      [] OTHER -> <<"raise", Exc("JSONDecodeError", <<"Expecting value">>)>>

\* variant: members[0] read without the `if members:` guard
MembersReportUnguarded(n) ==
    IF n > 0
    THEN <<"ok", << <<"Total members:", ToString(n)>>, <<"Sample Campaign Members">>,
                    <<"Member Object Structure">> >> >>
    ELSE <<"raise", Exc("IndexError", <<"list index out of range">>)>>

\* explore_campaign, lines 72-108: what is printed for a members page of n records;
\* `if members:` guards the table and members[0]
MembersReport(n) ==
    IF n > 0
    THEN <<"ok", << <<"Total members:", ToString(n)>>, <<"Sample Campaign Members">>,
                    <<"Member Object Structure">> >> >>
    ELSE <<"ok", << <<"Total members:", ToString(n)>>, <<"No members found">> >> >>

\* explore_campaign, lines 125-143
TeamsReport(n) ==
    IF n > 0 THEN << <<"Campaign Teams">> >> ELSE << <<"No teams found">> >>

\* explore_contacts, lines 184-205
ContactsReport(n) ==
    IF n > 0
    THEN << <<"Total contacts:", ToString(n)>>, <<"Contact Object Structure">>,
            <<"Note about Custom Fields">> >>
    ELSE << <<"Total contacts:", ToString(n)>>, <<"No contacts found">> >>

InExplore(s, p, st) ==
    /\ script = s
    /\ pc = p
    /\ stage = st

\* main, lines 217-223: explore_campaign(campaign_id) is entered
GbMainStart ==
    /\ script = "explore_givebutter"
    /\ pc = "start"
    /\ pc' = "campaign"
    /\ stage' = "key"
    /\ log' = Append(log, Ev("explore_campaign", "invoked", <<>>))
    /\ UNCHANGED <<script, env, idx, ret, table, all_passed, exit_code, out, sample, raised>>

\* explore_campaign, lines 28-31
CampaignKey ==
    /\ InExplore("explore_givebutter", "campaign", "key")
    /\ IF Missing(getenv("GIVEBUTTER_API_KEY"))
       THEN /\ out' = Append(out, GivebutterKeyMessage)
            /\ stage' = "returned"
       ELSE /\ stage' = "detail"
            /\ UNCHANGED out
    /\ UNCHANGED <<script, env, pc, idx, ret, table, all_passed, exit_code, log, sample, raised>>

\* explore_campaign, lines 54-57: after a non-200 answer for the campaign the function returns
AfterCampaignError == "returned"

\* explore_campaign, lines 41-57: GET /campaigns/{id}
CampaignFetch ==
    /\ InExplore("explore_givebutter", "campaign", "detail")
    /\ \/ /\ log' = Append(log, Ev("explore_campaign", "fetch", <<"campaign", "raised">>))
          /\ ExploreRaise(Refused)
       \/ \E status_code \in Statuses \ {200} :
            /\ log' = Append(log, Ev("explore_campaign", "fetch", <<"campaign", "status">>))
            /\ out' = Append(out, <<"Error fetching campaign:", ToString(status_code)>>)
            /\ stage' = AfterCampaignError
            /\ UNCHANGED <<pc, exit_code, raised>>
       \/ \E body \in DetailBodies :
            LET got == CampaignReport(body)
            IN IF got[1] = "ok"
               THEN /\ log' = Append(log, Ev("explore_campaign", "fetch", <<"campaign", "ok">>))
                    /\ out' = Append(out, got[2])
                    /\ stage' = "members"
                    /\ UNCHANGED <<pc, exit_code, raised>>
               ELSE /\ log' = Append(log, Ev("explore_campaign", "fetch", <<"campaign", "raised">>))
                    /\ ExploreRaise(got[2])
    /\ UNCHANGED <<script, env, idx, ret, table, all_passed, sample>>

\* variant: a return after the members error, as after the campaign error
AfterMembersErrorReturn == "returned"

\* explore_campaign, lines 110-114: after a non-200 answer for the members the function
\* goes on to the teams
AfterMembersError == "teams"

\* explore_campaign, lines 61-112: GET /campaigns/{id}/members
MembersFetch ==
    /\ InExplore("explore_givebutter", "campaign", "members")
    /\ \/ /\ log' = Append(log, Ev("explore_campaign", "fetch", <<"members", "raised">>))
          /\ ExploreRaise(Refused)
       \/ \E status_code \in Statuses \ {200} :
            /\ log' = Append(log, Ev("explore_campaign", "fetch", <<"members", "status">>))
            /\ out' = Append(out, <<"Error fetching members:", ToString(status_code)>>)
            /\ stage' = AfterMembersError
            /\ UNCHANGED <<pc, exit_code, raised>>
       \/ \E body \in ListBodies :
            LET parsed == ListParse(body, TRUE)
                got == IF parsed[1] = "ok" THEN MembersReport(parsed[2]) ELSE parsed
            IN IF got[1] = "ok"
               THEN /\ log' = Append(log, Ev("explore_campaign", "fetch",
                                            <<"members", "ok", ToString(parsed[2])>>))
                    /\ out' = out \o got[2]
                    /\ stage' = "teams"
                    /\ UNCHANGED <<pc, exit_code, raised>>
               ELSE /\ log' = Append(log, Ev("explore_campaign", "fetch",
                                            <<"members", "raised", body[1], ToString(body[2])>>))
                    /\ ExploreRaise(got[2])
    /\ UNCHANGED <<script, env, idx, ret, table, all_passed, sample>>

\* explore_campaign, lines 116-146: GET /campaigns/{id}/teams
TeamsFetch ==
    /\ InExplore("explore_givebutter", "campaign", "teams")
    /\ \/ /\ log' = Append(log, Ev("explore_campaign", "fetch", <<"teams", "raised">>))
          /\ ExploreRaise(Refused)
       \/ \E status_code \in Statuses \ {200} :
            /\ log' = Append(log, Ev("explore_campaign", "fetch", <<"teams", "status">>))
            /\ out' = Append(out, <<"Error fetching teams:", ToString(status_code)>>)
            /\ stage' = "returned"
            /\ UNCHANGED <<pc, exit_code, raised>>
       \/ \E body \in ListBodies :
            LET parsed == ListParse(body, FALSE)
            IN IF parsed[1] = "ok"
               THEN /\ log' = Append(log, Ev("explore_campaign", "fetch",
                                            <<"teams", "ok", ToString(parsed[2])>>))
                    /\ out' = out \o TeamsReport(parsed[2])
                    /\ stage' = "returned"
                    /\ UNCHANGED <<pc, exit_code, raised>>
               ELSE /\ log' = Append(log, Ev("explore_campaign", "fetch", <<"teams", "raised">>))
                    /\ ExploreRaise(parsed[2])
    /\ UNCHANGED <<script, env, idx, ret, table, all_passed, sample>>

\* main, line 226: explore_campaign has returned, explore_contacts(limit=3) is entered
GbMainContacts ==
    /\ InExplore("explore_givebutter", "campaign", "returned")
    /\ pc' = "contacts"
    /\ stage' = "key"
    /\ log' = Append(log, Ev("explore_contacts", "invoked", <<>>))
    /\ UNCHANGED <<script, env, idx, ret, table, all_passed, exit_code, out, sample, raised>>

\* explore_contacts, lines 161-164
ContactsKey ==
    /\ InExplore("explore_givebutter", "contacts", "key")
    /\ IF Missing(getenv("GIVEBUTTER_API_KEY"))
       THEN /\ out' = Append(out, GivebutterKeyMessage)
            /\ stage' = "returned"
       ELSE /\ stage' = "contacts"
            /\ UNCHANGED out
    /\ UNCHANGED <<script, env, pc, idx, ret, table, all_passed, exit_code, log, sample, raised>>

\* explore_contacts, lines 172-212: GET /contacts
ContactsFetch ==
    /\ InExplore("explore_givebutter", "contacts", "contacts")
    /\ \/ /\ log' = Append(log, Ev("explore_contacts", "fetch", <<"contacts", "raised">>))
          /\ ExploreRaise(Refused)
       \/ \E status_code \in Statuses \ {200} :
            /\ log' = Append(log, Ev("explore_contacts", "fetch", <<"contacts", "status">>))
            /\ out' = Append(out, <<"Error fetching contacts:", ToString(status_code)>>)
            /\ stage' = "returned"
            /\ UNCHANGED <<pc, exit_code, raised>>
       \/ \E body \in ListBodies :
            LET parsed == ListParse(body, TRUE)
            IN IF parsed[1] = "ok"
               THEN /\ log' = Append(log, Ev("explore_contacts", "fetch",
                                            <<"contacts", "ok", ToString(parsed[2])>>))
                    /\ out' = out \o ContactsReport(parsed[2])
                    /\ stage' = "returned"
                    /\ UNCHANGED <<pc, exit_code, raised>>
               ELSE /\ log' = Append(log, Ev("explore_contacts", "fetch", <<"contacts", "raised">>))
                    /\ ExploreRaise(parsed[2])
    /\ UNCHANGED <<script, env, idx, ret, table, all_passed, sample>>

\* main, lines 228-230: the closing message; main returns and the process ends normally
GbMainComplete ==
    /\ InExplore("explore_givebutter", "contacts", "returned")
    /\ out' = Append(out, <<"Exploration complete!">>)
    /\ pc' = "exit"
    /\ stage' = "none"
    /\ UNCHANGED <<script, env, idx, ret, table, all_passed, exit_code, log, sample, raised>>

ExploreGivebutter ==
    \/ GbMainStart \/ CampaignKey \/ CampaignFetch \/ MembersFetch \/ TeamsFetch
    \/ GbMainContacts \/ ContactsKey \/ ContactsFetch \/ GbMainComplete

----------------------------------------------------------------------------
(* explore_jotform.py *)

\* main, lines 126 and 129: limit=2
SampleLimit == 2

\* largest number of answers of one submission in the model
MaxAnswers == 2

\* JSON values of an answer: a string <<"str", s>> or an object <<"dict", key, value, ...>>
Str(s) == <<"str", s>>
AnswerValues == {Str("a@b.com"), <<"dict", "first", "Ann", "last", "Lee">>}

FieldIds == {ToString(i) : i \in 3..(2 + MaxAnswers)}
Names == {"email", "fullName"}

\* the nested object of one answer: `name` and `answer` are each present or absent
AnswerData ==
    {[name |-> n, answer |-> a] : n \in Names, a \in AnswerValues}
    \cup {[name |-> n] : n \in Names}
    \cup {[answer |-> a] : a \in AnswerValues}

\* submission['answers']: field id -> nested object, in the order of the JSON document
RECURSIVE AnswersOfLen(_)
AnswersOfLen(n) ==
    IF n = 0 THEN {<<>>}
    ELSE {Append(s, <<id, d>>) :
            s \in AnswersOfLen(n - 1),
            id \in FieldIds,
            d \in AnswerData} 

DistinctIds(s) == \A i, j \in 1..Len(s) : s[i][1] = s[j][1] => i = j

AnswerInputs ==
    {s \in UNION {AnswersOfLen(n) : n \in 0..MaxAnswers} : DistinctIds(s)}

\* dict.get(key, default)
get(d, key, default) == IF key \in DOMAIN d THEN d[key] ELSE default

\* d[key] = value
Put(d, key, value) == [x \in DOMAIN d \cup {key} |-> IF x = key THEN value ELSE d[x]]

\* variant: the key synthesized from the field id even when a name is present
FieldNameIdOnly(field_id, answer_data) == "field_" \o field_id

\* explore_form, line 93
FieldName(field_id, answer_data) == get(answer_data, "name", "field_" \o field_id)

\* explore_form, line 94
AnswerOf(answer_data) == get(answer_data, "answer", Str(""))

\* explore_form, lines 97-102: both branches of isinstance(answer, dict) store the answer as it is
Stored(answer) == IF answer[1] = "dict" THEN answer ELSE answer

\* explore_form, lines 89-102: the loop over answers.items(), from entry i on
RECURSIVE ExtractFrom(_, _, _)
ExtractFrom(answers, i, acc) ==
    IF i > Len(answers) THEN acc
    ELSE LET field_id == answers[i][1]
             answer_data == answers[i][2]
             field_name == FieldName(field_id, answer_data)
             answer == AnswerOf(answer_data)
         IN ExtractFrom(answers, i + 1, Put(acc, field_name, Stored(answer)))

ExtractAnswers(answers) == ExtractFrom(answers, 1, <<>>)

\* the two forms main() explores, in order
Forms == <<"signup", "setup">>

InForm(st) ==
    /\ script = "explore_jotform"
    /\ pc \in Range(Forms)
    /\ stage = st

FormEv(what, data) == Ev("explore_form", what, <<pc>> \o data)

\* main, lines 119-126: explore_form(signup_form_id, ...) is entered
JfMainStart ==
    /\ script = "explore_jotform"
    /\ pc = "start"
    /\ pc' = Forms[1]
    /\ stage' = "key"
    /\ log' = Append(log, Ev("explore_form", "invoked", <<Forms[1]>>))
    /\ UNCHANGED <<script, env, idx, ret, table, all_passed, exit_code, out, sample, raised>>

\* explore_form, lines 37-40
FormKey ==
    /\ InForm("key")
    /\ IF Missing(getenv("JOTFORM_API_KEY"))
       THEN /\ out' = Append(out, JotformKeyMessage)
            /\ stage' = "returned"
       ELSE /\ stage' = "client"
            /\ UNCHANGED out
    /\ UNCHANGED <<script, env, pc, idx, ret, table, all_passed, exit_code, log, sample, raised>>

\* explore_form, line 43
FormClient ==
    /\ InForm("client")
    /\ \E ok \in BOOLEAN :
        IF ok
        THEN /\ stage' = "info"
             /\ UNCHANGED <<pc, exit_code, out, raised>>
        ELSE ExploreRaise(Exc("TypeError", <<"client construction failed">>))
    /\ UNCHANGED <<script, env, idx, ret, table, all_passed, log, sample>>

\* explore_form, lines 47-50: client.get_form and the fields read from its answer
FormInfo ==
    /\ InForm("info")
    /\ \E answer \in {"ok", "raised", "notadict"} :
        CASE answer = "ok" ->
                /\ log' = Append(log, FormEv("fetch", <<"info", "ok">>))
                /\ out' = Append(out, <<"Form title:", "Created:", "Total submissions:">>)
                /\ stage' = "questions"
                /\ UNCHANGED <<pc, exit_code, raised>>
          [] answer = "raised" ->
                /\ log' = Append(log, FormEv("fetch", <<"info", "raised">>))
                /\ ExploreRaise(Exc("APIError", <<"HTTP Error", "401">>))
          [] answer = "notadict" ->
                /\ log' = Append(log, FormEv("fetch", <<"info", "raised">>))
                /\ ExploreRaise(Exc("AttributeError", <<"'NoneType' object has no attribute 'get'">>))
    /\ UNCHANGED <<script, env, idx, ret, table, all_passed, sample>>

\* explore_form, lines 54-72: client.get_form_questions and the table of fields
FormQuestions ==
    /\ InForm("questions")
    /\ \E answer \in {"ok", "raised", "nulltext"} :
        CASE answer = "ok" ->
                /\ log' = Append(log, FormEv("fetch", <<"questions", "ok">>))
                /\ out' = Append(out, <<"Form Fields">>)
                /\ stage' = "submissions"
                /\ UNCHANGED <<pc, exit_code, raised>>
          [] answer = "raised" ->
                /\ log' = Append(log, FormEv("fetch", <<"questions", "raised">>))
                /\ ExploreRaise(Exc("APIError", <<"HTTP Error", "404">>))
          [] answer = "nulltext" ->
                /\ log' = Append(log, FormEv("fetch", <<"questions", "raised">>))
                /\ ExploreRaise(Exc("TypeError", <<"'NoneType' object is not subscriptable">>))
    /\ UNCHANGED <<script, env, idx, ret, table, all_passed, sample>>

\* explore_form, lines 76-80: client.get_form_submissions(form_id, offset=0, limit=limit)
FormSubmissions ==
    /\ InForm("submissions")
    /\ \/ /\ log' = Append(log, FormEv("fetch", <<"submissions", "raised">>))
          /\ ExploreRaise(Refused)
          /\ UNCHANGED sample
       \/ \E n \in 0..SampleLimit :
            /\ log' = Append(log, FormEv("fetch", <<"submissions", "ok", ToString(n)>>))
            /\ IF n = 0
               THEN /\ out' = Append(out, <<"No submissions found">>)
                    /\ stage' = "returned"
                    /\ UNCHANGED sample
               ELSE /\ left' = n
                    /\ stage' = "sample"
                    /\ UNCHANGED <<out, submission, extracted>>
            /\ UNCHANGED <<pc, exit_code, raised>>
    /\ UNCHANGED <<script, env, idx, ret, table, all_passed>>

\* explore_form, lines 83-109: one pass of the loop over submissions
SubmissionExtract ==
    /\ InForm("sample")
    /\ left > 0
    /\ \/ \E answers \in AnswerInputs :
            /\ submission' = answers
            /\ extracted' = ExtractAnswers(answers)
            /\ left' = left - 1
            /\ out' = Append(out, <<"Extracted Answers">>)
            /\ stage' = "shown"
            /\ UNCHANGED <<pc, exit_code, raised>>
       \/ \* an answer that is no object: answer_data.get raises
          /\ ExploreRaise(Exc("AttributeError", <<"'str' object has no attribute 'get'">>))
          /\ left' = 0
          /\ submission' = <<>>
          /\ extracted' = <<>>
    /\ UNCHANGED <<script, env, idx, ret, table, all_passed, log>>

\* explore_form, lines 83 and 111: the for statement moves on to the next submission, or
\* the loop is over and the function returns; the values of the pass before are dead
SubmissionLoop ==
    /\ InForm("shown")
    /\ stage' = IF left > 0 THEN "sample" ELSE "returned"
    /\ submission' = <<>>
    /\ extracted' = <<>>
    /\ UNCHANGED <<script, env, pc, idx, ret, table, all_passed, exit_code, log, out, left, raised>>

\* main, line 129: the first explore_form has returned, the second is entered
JfMainSetup ==
    /\ script = "explore_jotform"
    /\ pc = Forms[1]
    /\ stage = "returned"
    /\ pc' = Forms[2]
    /\ stage' = "key"
    /\ log' = Append(log, Ev("explore_form", "invoked", <<Forms[2]>>))
    /\ UNCHANGED <<script, env, idx, ret, table, all_passed, exit_code, out, sample, raised>>

\* main, lines 131-133
JfMainComplete ==
    /\ script = "explore_jotform"
    /\ pc = Forms[2]
    /\ stage = "returned"
    /\ out' = Append(out, <<"Exploration complete!">>)
    /\ pc' = "exit"
    /\ stage' = "none"
    /\ UNCHANGED <<script, env, idx, ret, table, all_passed, exit_code, log, sample, raised>>

ExploreJotform ==
    \/ JfMainStart \/ FormKey \/ FormClient \/ FormInfo \/ FormQuestions
    \/ FormSubmissions \/ SubmissionExtract \/ SubmissionLoop \/ JfMainSetup \/ JfMainComplete

Next == TestConnection \/ ExploreGivebutter \/ ExploreJotform

Init ==
    /\ script \in Scripts
    /\ env \in UNION {[K -> EnvValues] : K \in SUBSET EnvKeys(script)}
    /\ pc = "start"
    /\ idx = 1
    /\ stage = "none"
    /\ ret = <<FALSE, <<>>>>
    /\ table = <<>>
    /\ all_passed = TRUE
    /\ exit_code = 0
    /\ log = <<>>
    /\ out = <<>>
    /\ raised = <<>>
    /\ left = 0
    /\ submission = <<>>
    /\ extracted = <<>>

Spec == Init /\ [][Next]_vars
----------------------------------------------------------------------------
(* Reading the history *)

Harness == script = "test_connection"

IsPrefix(s, t) == Len(s) <= Len(t) /\ \A i \in 1..Len(s) : s[i] = t[i]

Happened(ev) == ev \in Range(log)

\* the functions entered so far, in order
InvokedOrder ==
    LET I == SelectSeq(log, LAMBDA e : e.what = "invoked")
    IN [i \in 1..Len(I) |-> I[i].f]

\* number of network calls a probe has issued
NetworkCalls(f) == Len(SelectSeq(log, LAMBDA e : e.f = f /\ e.what = "call"))

ProbeIndex(f) == CHOOSE i \in 1..Len(tests) : tests[i][2] = f

Passed(i) == table[i][2] = "Pass"
Failed(i) == table[i][2] = "Fail"

\* a variable that is absent from the environment or set to the empty string
Unset(key) == key \notin DOMAIN env \/ env[key] = ""

\* the credentials each probe needs
Required(f) ==
    CASE f = "test_supabase" -> {"SUPABASE_URL", "SUPABASE_KEY"}
      [] f = "test_jotform" -> {"JOTFORM_API_KEY"}
      [] f = "test_givebutter" -> {"GIVEBUTTER_API_KEY"}

ImportOk(f) == Happened(Ev(f, "import", <<"ok">>))

ClientBuilt(f) ==
    /\ ~Happened(Ev(f, "construct", <<"raise">>))
    /\ ~Happened(Ev(f, "credential", <<"ok", "construct-raise">>))

----------------------------------------------------------------------------
(* C1: in test_connection.main every registered probe is invoked exactly once, one
   after another and in the registered order, the rows of the report follow the same
   order, and a failed probe is neither retried nor stops the later ones. *)
C1_ProbesOnceInOrder ==
    Harness =>
        /\ IsPrefix(InvokedOrder, [i \in 1..Len(tests) |-> tests[i][2]])
        /\ IsPrefix([i \in 1..Len(table) |-> table[i][1]], [i \in 1..Len(tests) |-> tests[i][1]])
        /\ Len(InvokedOrder) = Len(table) + (IF pc = "probe" THEN 1 ELSE 0)
        /\ pc = "exit" => Len(table) = Len(tests) /\ Len(InvokedOrder) = Len(tests)
        /\ pc # "exit" => ENABLED Next

\* the first and the last probe failed, the second passed, and all three rows are there
C1_Witness ==
    /\ Harness
    /\ pc = "exit"
    /\ Len(table) = 3
    /\ Failed(1) /\ Passed(2) /\ Failed(3)

(* C2: after all probes have run, all_passed is the conjunction of the probes' success
   flags, and the exit code is 0 exactly when every probe succeeded and 1 exactly when
   at least one failed. *)
C2_ExitCodeIsConjunction ==
    Harness =>
        /\ pc \in {"loop", "probe", "exit"} =>
              (all_passed <=> \A i \in 1..Len(table) : Passed(i))
        /\ pc = "exit" =>
              /\ Len(table) = Len(tests)
              /\ exit_code = 0 <=> \A i \in 1..Len(table) : Passed(i)
              /\ exit_code = 1 <=> \E i \in 1..Len(table) : Failed(i)

\* an early failure followed by a passing last probe still exits 1
C2_Witness ==
    /\ Harness
    /\ pc = "exit"
    /\ Failed(1) /\ Passed(2) /\ Passed(3)
    /\ exit_code = 1

(* C3: whatever exception is raised at any stage inside a probe, the probe returns
   (False, str(e)) to main and the harness goes on; no exception leaves a probe. *)
C3_ProbesContainErrors ==
    Harness =>
        /\ pc # "crashed"
        /\ \A k \in 1..Len(raised) :
              LET i == ProbeIndex(raised[k].f)
              IN IF i <= Len(table)
                 THEN Failed(i) /\ table[i][3] = raised[k].e.msg
                 ELSE /\ pc = "probe" /\ idx = i /\ stage = "returned"
                      /\ ret = <<FALSE, raised[k].e.msg>>
        /\ pc = "exit" => Len(table) = Len(tests)

\* the import fails in the first probe, the client construction in the second and the
\* parsing of the response in the third; all three rows are reported
C3_Witness ==
    /\ Harness
    /\ pc = "exit"
    /\ Len(raised) = 3
    /\ raised[1].e.type = "ImportError"
    /\ raised[2].e.type = "TypeError"
    /\ raised[3].e.type = "JSONDecodeError"
    /\ Len(table) = 3

(* C4 as stated: for every probe and every required key that is absent or empty, the
   row of the probe is a failure whose detail names the key, and all probes are run. *)
C4_MissingKeyIsNamed ==
    Harness =>
        /\ \A i \in 1..Len(table) : \A key \in Required(tests[i][2]) :
              Unset(key) => Failed(i) /\ key \in Range(table[i][3])
        /\ pc = "exit" => Len(table) = Len(tests)

(* C4 amended: the same, for the probes whose opening import succeeded; a probe whose
   import fails reports the import error whatever the state of its keys. *)
C4_MissingKeyIsNamedAfterImport ==
    Harness =>
        /\ \A i \in 1..Len(table) : \A key \in Required(tests[i][2]) :
              ImportOk(tests[i][2]) /\ Unset(key) =>
                  Failed(i) /\ key \in Range(table[i][3])
        /\ \A i \in 1..Len(table) :
              ~ImportOk(tests[i][2]) =>
                  Failed(i) /\ table[i][3] = <<"No module named", Imported(tests[i][2])>>
        /\ pc = "exit" => Len(table) = Len(tests)

\* every import succeeded, every key is missing (two absent, two empty), three rows
C4_Witness ==
    /\ Harness
    /\ pc = "exit"
    /\ \A i \in 1..Len(tests) : ImportOk(tests[i][2])
    /\ "SUPABASE_URL" \notin DOMAIN env
    /\ getenv("SUPABASE_KEY") = ""
    /\ getenv("JOTFORM_API_KEY") = ""
    /\ "GIVEBUTTER_API_KEY" \notin DOMAIN env
    /\ Len(table) = 3

\* the responses test_givebutter received: <<"response", status, text>>
GivebutterResponses ==
    {e.data : e \in {x \in Range(log) :
                        x.f = "test_givebutter" /\ x.what = "call" /\ Len(x.data) = 3}}

(* C6 as stated: with a response received, every non-2xx status gives a failure whose
   detail holds the status code and the body, and every 2xx status gives success
   (read here for the responses whose body is a JSON object). *)
C6_SuccessOnEvery2xx ==
    Harness /\ Len(table) = Len(tests) =>
        \A r \in GivebutterResponses : \A s \in Statuses :
            r[2] = ToString(s) =>
                /\ ~Is2xx(s) => Failed(3) /\ {ToString(s), r[3]} \subseteq Range(table[3][3])
                /\ Is2xx(s) /\ r[3] \in {GoodBody, NoMetaBody} => Passed(3)

(* C6 amended: every status other than 200 (the other 2xx codes included) gives a
   failure whose detail is "HTTP <status>: <body>"; status 200 gives success when the
   body is a JSON object, and a failure carrying the parse error when it is not. *)
C6_SuccessOnlyOn200 ==
    Harness /\ Len(table) = Len(tests) =>
        \A r \in GivebutterResponses : \A s \in Statuses :
            r[2] = ToString(s) =>
                /\ s # 200 => Failed(3) /\ table[3][3] = <<"HTTP", ToString(s), ":", r[3]>>
                /\ s = 200 /\ r[3] \in {GoodBody, NoMetaBody} => Passed(3)
                /\ s = 200 /\ r[3] \notin {GoodBody, NoMetaBody} =>
                      Failed(3) /\ Len(raised) > 0 /\ table[3][3] = raised[Len(raised)].e.msg

\* a 201 answer with a well-formed body is reported as a failure
C6_Witness ==
    /\ Harness
    /\ Len(table) = 3
    /\ <<"response", "201", GoodBody>> \in GivebutterResponses
    /\ Failed(3)

CredentialsResolve(f) == \A key \in Required(f) : ~Unset(key)

\* every call of the probe comes after its credential check succeeded
CheckPrecedesCall(f) ==
    \A j \in 1..Len(log) :
        log[j].f = f /\ log[j].what = "call" =>
            \E k \in 1..(j - 1) :
                log[k].f = f /\ log[k].what = "credential" /\ log[k].data[1] = "ok"

(* C9 as stated: a probe issues at most one network call; exactly one when its
   credentials resolve and none when a required credential is absent or empty. *)
C9_OneCallWhenCredentialsResolve ==
    Harness =>
        \A i \in 1..Len(tests) :
            LET f == tests[i][2]
            IN /\ NetworkCalls(f) <= 1
               /\ CheckPrecedesCall(f)
               /\ i <= Len(table) =>
                     /\ CredentialsResolve(f) => NetworkCalls(f) = 1
                     /\ ~CredentialsResolve(f) => NetworkCalls(f) = 0

(* C9 amended: a probe issues at most one network call, after its credential check;
   exactly one when its import succeeds, its credentials resolve and its client is
   constructed, and none otherwise, in particular none when a credential is absent or
   empty; the call is not repeated after a failure. *)
C9_OneCallWhenProbeReachesIt ==
    Harness =>
        \A i \in 1..Len(tests) :
            LET f == tests[i][2]
            IN /\ NetworkCalls(f) <= 1
               /\ CheckPrecedesCall(f)
               /\ i <= Len(table) =>
                     /\ ImportOk(f) /\ CredentialsResolve(f) /\ ClientBuilt(f)
                            => NetworkCalls(f) = 1
                     /\ ~(ImportOk(f) /\ CredentialsResolve(f) /\ ClientBuilt(f))
                            => NetworkCalls(f) = 0

\* the first probe's call is refused and not repeated, the second has an empty key and
\* issues no call, the third issues its one call
C9_Witness ==
    /\ Harness
    /\ pc = "exit"
    /\ Happened(Ev("test_supabase", "call", <<"refused">>))
    /\ NetworkCalls("test_supabase") = 1
    /\ getenv("JOTFORM_API_KEY") = ""
    /\ NetworkCalls("test_jotform") = 0
    /\ NetworkCalls("test_givebutter") = 1

----------------------------------------------------------------------------
(* Reading the history of the exploration scripts *)

\* explore_campaign has returned to main
CampaignReturned ==
    /\ script = "explore_givebutter"
    /\ \/ pc = "campaign" /\ stage = "returned"
       \/ pc \in {"contacts", "exit"}

\* how the fetch of a campaign endpoint went: "ok", "status" (a non-200 answer),
\* "raised" (an error raised by the request or while its answer is read), or "none"
CampaignFetched(endpoint) ==
    LET E == SelectSeq(log, LAMBDA e : e.f = "explore_campaign" /\ e.what = "fetch"
                                         /\ e.data[1] = endpoint)
    IN IF Len(E) = 0 THEN "none" ELSE E[1].data[2]

\* explore_form for this form has returned to main
FormReturned(form) ==
    /\ script = "explore_jotform"
    /\ \/ pc = form /\ stage = "returned"
       \/ form = Forms[1] /\ pc \in {Forms[2], "exit"}
       \/ form = Forms[2] /\ pc = "exit"

\* how the fetch of a form endpoint went: "ok", "raised", or "none"
FormFetched(form, endpoint) ==
    LET E == SelectSeq(log, LAMBDA e : e.f = "explore_form" /\ e.what = "fetch"
                                         /\ e.data[1] = form /\ e.data[2] = endpoint)
    IN IF Len(E) = 0 THEN "none" ELSE E[1].data[3]

\* the reports of raised errors printed so far
ErrorReports == SelectSeq(out, LAMBDA line : line[1] = "Error:")

Reported(line) == line \in Range(out)

(* C5 as stated: in the exploration of one resource the failure of an endpoint fetch
   does not abort the later endpoints: once the first endpoint has been fetched, the
   second and the third are fetched too. *)
C5_EveryEndpointFetched ==
    /\ CampaignReturned /\ CampaignFetched("campaign") # "none" =>
          CampaignFetched("members") # "none" /\ CampaignFetched("teams") # "none"
    /\ \A form \in Range(Forms) :
          FormReturned(form) /\ FormFetched(form, "info") # "none" =>
              /\ FormFetched(form, "questions") # "none"
              /\ FormFetched(form, "submissions") # "none"

(* C5 amended: every failure is reported inline and the function returns normally, but
   only a non-200 answer for the campaign members lets the exploration go on (to the
   teams); a non-200 answer for the campaign itself, and an error raised while any
   endpoint of a campaign or a form is fetched or displayed, end the exploration of
   that resource: no later endpoint of it is fetched. *)
C5_OnlyMembersStatusIsIsolated ==
    /\ script # "test_connection" => pc # "crashed" /\ Len(ErrorReports) = Len(raised)
    /\ CampaignReturned =>
          /\ CampaignFetched("members") = "status" =>
                /\ CampaignFetched("teams") # "none"
                /\ \E s \in Statuses : Reported(<<"Error fetching members:", ToString(s)>>)
          /\ CampaignFetched("campaign") = "ok" <=> CampaignFetched("members") # "none"
          /\ CampaignFetched("campaign") = "status" =>
                \E s \in Statuses : Reported(<<"Error fetching campaign:", ToString(s)>>)
          /\ CampaignFetched("members") \in {"ok", "status"}
                <=> CampaignFetched("teams") # "none"
    /\ \A form \in Range(Forms) :
          FormReturned(form) =>
              /\ FormFetched(form, "info") = "ok" <=> FormFetched(form, "questions") # "none"
              /\ FormFetched(form, "questions") = "ok"
                    <=> FormFetched(form, "submissions") # "none"

\* the members endpoint answered with a non-200 status and the teams were fetched
C5_Witness ==
    /\ CampaignReturned
    /\ CampaignFetched("members") = "status"
    /\ CampaignFetched("teams") = "ok"

(* C8: explore_jotform.main and explore_givebutter.main run to completion with exit
   code 0 whatever the fetches do, and the second exploration is started whatever
   happened in the first. *)
C8_DiscoveryAlwaysCompletes ==
    script # "test_connection" =>
        /\ pc # "crashed"
        /\ exit_code = 0
        /\ pc # "exit" => ENABLED Next
        /\ pc = "exit" =>
              /\ out[Len(out)] = <<"Exploration complete!">>
              /\ script = "explore_givebutter" =>
                    InvokedOrder = <<"explore_campaign", "explore_contacts">>
              /\ script = "explore_jotform" =>
                    /\ InvokedOrder = <<"explore_form", "explore_form">>
                    /\ Happened(Ev("explore_form", "invoked", <<Forms[1]>>))
                    /\ Happened(Ev("explore_form", "invoked", <<Forms[2]>>))

\* an error is raised while the campaign is explored, another while the contacts are,
\* and the script still ends normally
C8_Witness ==
    /\ script = "explore_givebutter"
    /\ pc = "exit"
    /\ exit_code = 0
    /\ Len(raised) = 2
    /\ raised[1].f = "campaign"
    /\ raised[2].f = "contacts"

\* the members endpoint answered 200 with {data: [], meta: {total: 0}}
MembersEmpty ==
    \E e \in Range(log) :
        /\ e.f = "explore_campaign" /\ e.what = "fetch" /\ e.data[1] = "members"
        /\ \/ e.data = <<"members", "ok", "0">>
           \/ e.data = <<"members", "raised", "page", "0">>

(* C10: when the members endpoint answers 200 with an empty list, explore_campaign
   reports zero members, raises and reports no error for it, and goes on to fetch the
   teams. *)
C10_EmptyMembersIsNoFailure ==
    script = "explore_givebutter" /\ MembersEmpty =>
        /\ CampaignFetched("members") = "ok"
        /\ Reported(<<"Total members:", "0">>)
        /\ Reported(<<"No members found">>)
        /\ \A s \in Statuses : ~Reported(<<"Error fetching members:", ToString(s)>>)
        /\ pc = "campaign" /\ stage = "teams" => raised = <<>> /\ ErrorReports = <<>>
        /\ CampaignReturned => CampaignFetched("teams") # "none"
        /\ pc # "crashed"

\* an empty members page, then the teams are fetched and the script completes
C10_Witness ==
    /\ script = "explore_givebutter"
    /\ MembersEmpty
    /\ CampaignFetched("teams") = "ok"
    /\ raised = <<>>
    /\ pc = "exit"

----------------------------------------------------------------------------
(* The answer extraction of explore_form *)

\* the key an answer entry <<field_id, nested object>> is filed under
KeyOf(entry) ==
    IF "name" \in DOMAIN entry[2] THEN entry[2].name ELSE "field_" \o entry[1]

HasAnswer(entry) == "answer" \in DOMAIN entry[2]

ExampleAnswers == << <<"3", [name |-> "email", answer |-> Str("a@b.com")]>> >>

(* C7 as stated: every answer entry of a submission becomes a field keyed by its
   name, or by field_<id> without a name, whose value is the entry's answer. *)
C7_EveryEntryIsAField ==
    /\ \A i \in 1..Len(submission) :
          /\ KeyOf(submission[i]) \in DOMAIN extracted
          /\ HasAnswer(submission[i]) =>
                extracted[KeyOf(submission[i])] = submission[i][2].answer
    /\ submission = ExampleAnswers => extracted = [k \in {"email"} |-> Str("a@b.com")]

(* C7 amended: the fields are exactly the keys of the entries (name, or field_<id>
   without a name), and the value of a field is the answer, kept as it is when it is
   an object, of the last entry filed under that key (the empty string when that entry
   has no answer); so every entry whose key no later entry shares is unwrapped as
   stated, and of two entries with the same key only the later one is kept. *)
C7_LastEntryPerKeyIsAField ==
    /\ DOMAIN extracted = {KeyOf(submission[i]) : i \in 1..Len(submission)}
    /\ \A i \in 1..Len(submission) :
          (\A j \in (i + 1)..Len(submission) : KeyOf(submission[j]) # KeyOf(submission[i])) =>
              extracted[KeyOf(submission[i])] =
                  IF HasAnswer(submission[i]) THEN submission[i][2].answer ELSE Str("")
    /\ submission = ExampleAnswers => extracted = [k \in {"email"} |-> Str("a@b.com")]

\* a submission with a named entry holding a compound answer and an unnamed entry
\* holding a string has been displayed
C7_Witness ==
    /\ script = "explore_jotform"
    /\ stage = "shown"
    /\ submission = << <<"4", [name |-> "email", answer |-> <<"dict", "first", "Ann", "last", "Lee">>]>>,
                       <<"3", [answer |-> Str("a@b.com")]>> >>
    /\ DOMAIN extracted = {"email", "field_3"}
    /\ extracted["field_3"] = Str("a@b.com")

====
